---- MODULE Spec2Model ----
(***************************************************************************)
(* Model of src/index.js: a todo list kept in the array `todos`, saved to  *)
(* localStorage under the key 'todos', rendered through a status filter    *)
(* and a search text, edited through one form, reordered by drag and drop. *)
(*                                                                         *)
(* Text (titles, the search text, the form input) is a sequence of         *)
(* one-character strings.  The stored JSON text is a sequence of tokens:   *)
(* the punctuation of JSON, the characters of string literals, and the     *)
(* atoms true, false, null and numbers.                                    *)
(***************************************************************************)
EXTENDS Integers, Sequences, FiniteSets, TLC

VARIABLES
    pc,           \* "start": the script has not run yet; "running": handlers wait for events
    todos,        \* let todos: the array of { id, title, completed }
    junk,         \* the JSON text of the value of `todos` when it is not an array, else << >>
    filter,       \* let filter
    searchQuery,  \* let searchQuery
    editingId,    \* let editingId
    store,        \* localStorage entry LS_KEY
    rendered,     \* children of todoListEl: << [id, checked] >>
    countBadge,   \* countBadge.textContent as << completedCount, total >>
    nextId,       \* the clock and random source behind uid()
    alerted,      \* the alert() shown by the last handler
    threw,        \* the last handler ended by an uncaught TypeError
    lastOp,       \* the last handler that ran
    orderedIds    \* const orderedIds of the last handler, when it was onEnd; else << >>

vars == << pc, todos, junk, filter, searchQuery, editingId, store, rendered,
           countBadge, nextId, alerted, threw, lastOp, orderedIds >>

----------------------------------------------------------------------------
(* Bounds and input samples *)

MaxIds == 3

\* what the user types into the form
Inputs ==
    { << >>, << " " >>, << "a" >>, << "A", " " >>, << " ", "\"", "b" >> }

\* the same, and a third title
FormInputs == Inputs \cup { << "B" >> }

\* what the user types into the search box
Queries == { << >>, << " " >>, << "A", " " >> }

Filters == { "all", "active", "completed" }

NoId == "null"

----------------------------------------------------------------------------
(* String helpers of the language *)

RECURSIVE trimStart(_)
trimStart(s) ==
    IF s = << >> THEN << >>
    ELSE IF Head(s) = " " THEN trimStart(Tail(s)) ELSE s

RECURSIVE trimEnd(_)
trimEnd(s) ==
    IF s = << >> THEN << >>
    ELSE IF s[Len(s)] = " " THEN trimEnd(SubSeq(s, 1, Len(s) - 1)) ELSE s

\* a trim that trims nothing
trimNothing(s) == s

trim(s) == trimEnd(trimStart(s))

lowerChar(c) ==
    IF c = "A" THEN "a" ELSE IF c = "B" THEN "b" ELSE c

toLowerCase(s) == [i \in 1..Len(s) |-> lowerChar(s[i])]

includes(s, q) ==
    \E i \in 0..(Len(s) - Len(q)) : SubSeq(s, i + 1, i + Len(q)) = q

Ids(s) == [i \in 1..Len(s) |-> s[i].id]

IdSet(s) == { s[i].id : i \in 1..Len(s) }

\* Array.prototype.findIndex(t => t.id === id), 1-based; 0 when there is none
findIndex(s, id) ==
    IF \E i \in 1..Len(s) : s[i].id = id
    THEN CHOOSE i \in 1..Len(s) : s[i].id = id /\ \A j \in 1..(i - 1) : s[j].id # id
    ELSE 0

----------------------------------------------------------------------------
(* JSON.stringify *)

\* a stringify that escapes nothing
EscapeNothing(s) == s

RECURSIVE Escape(_)
Escape(s) ==
    IF s = << >> THEN << >>
    ELSE (IF Head(s) \in { "\"", "\\" } THEN << "\\", Head(s) >> ELSE << Head(s) >>)
         \o Escape(Tail(s))

StringLit(s) == << "\"" >> \o Escape(s) \o << "\"" >>

StringifyItem(t) ==
    << "{" >> \o StringLit(<< "id" >>) \o << ":" >> \o StringLit(<< t.id >>)
    \o << "," >> \o StringLit(<< "title" >>) \o << ":" >> \o StringLit(t.title)
    \o << "," >> \o StringLit(<< "completed" >>) \o << ":" >>
    \o << IF t.completed THEN "true" ELSE "false" >> \o << "}" >>

RECURSIVE StringifyItems(_)
StringifyItems(s) ==
    IF s = << >> THEN << >>
    ELSE IF Len(s) = 1 THEN StringifyItem(s[1])
    ELSE StringifyItem(s[1]) \o << "," >> \o StringifyItems(Tail(s))

JSONstringify(s) == << "[" >> \o StringifyItems(s) \o << "]" >>

----------------------------------------------------------------------------
(* JSON.parse, for the texts the store of the model can hold: scalars,     *)
(* string literals, the empty object and arrays of three-field objects.    *)
(* Any other text is a SyntaxError.                                        *)

NoParse == [ok |-> FALSE, val |-> << >>, next |-> 0]

At(t, i, tok) == i >= 1 /\ i <= Len(t) /\ t[i] = tok

\* the characters of a string literal whose opening quote is at i - 1
RECURSIVE ScanString(_, _, _)
ScanString(t, i, acc) ==
    IF i > Len(t) THEN NoParse
    ELSE IF t[i] = "\"" THEN [ok |-> TRUE, val |-> acc, next |-> i + 1]
    ELSE IF t[i] = "\\"
         THEN IF i + 1 > Len(t) THEN NoParse
              ELSE ScanString(t, i + 2, Append(acc, t[i + 1]))
    ELSE ScanString(t, i + 1, Append(acc, t[i]))

ParseString(t, i) == IF At(t, i, "\"") THEN ScanString(t, i + 1, << >>) ELSE NoParse

\* "key" ":" at i; the index after the colon, or 0
KeyEnd(t, k, key) ==
    IF k.ok /\ k.val = << key >> /\ At(t, k.next, ":") THEN k.next + 1 ELSE 0

ParseKey(t, i, key) == KeyEnd(t, ParseString(t, i), key)

\* the member "completed": true | false "}" closing an object with this id and title
CompletedMember(t, id, title, p) ==
    IF p > 0 /\ (At(t, p, "true") \/ At(t, p, "false")) /\ At(t, p + 1, "}")
    THEN [ok |-> TRUE,
          val |-> [id |-> id, title |-> title, completed |-> (t[p] = "true")],
          next |-> p + 2]
    ELSE NoParse

\* v is the value read for "title"
TitleMember(t, id, v) ==
    IF v.ok /\ At(t, v.next, ",")
    THEN CompletedMember(t, id, v.val, ParseKey(t, v.next + 1, "completed"))
    ELSE NoParse

\* v is the value read for "id"
IdMember(t, v) ==
    IF v.ok /\ Len(v.val) = 1 /\ At(t, v.next, ",")
    THEN TitleMember(t, v.val[1], ParseString(t, ParseKey(t, v.next + 1, "title")))
    ELSE NoParse

ParseItem(t, i) ==
    IF At(t, i, "{") THEN IdMember(t, ParseString(t, ParseKey(t, i + 1, "id"))) ELSE NoParse

\* the items of an array whose "[" is before i; acc holds the items read so far,
\* it is the item read at i
RECURSIVE ParseItems(_, _, _)
ParseItems(t, it, acc) ==
    IF ~it.ok THEN NoParse
    ELSE IF At(t, it.next, "]")
         THEN [ok |-> TRUE, val |-> Append(acc, it.val), next |-> it.next + 1]
    ELSE IF At(t, it.next, ",")
         THEN ParseItems(t, ParseItem(t, it.next + 1), Append(acc, it.val))
    ELSE NoParse

SyntaxError == [ok |-> FALSE, kind |-> "none", truthy |-> FALSE, items |-> << >>]

Parsed(k, tr, its) == [ok |-> TRUE, kind |-> k, truthy |-> tr, items |-> its]

\* s is what ParseString read from the whole text
WholeString(t, s) ==
    IF s.ok /\ s.next = Len(t) + 1 THEN Parsed("string", s.val # << >>, << >>) ELSE SyntaxError

\* a is what ParseItems read from the whole text
WholeArray(t, a) ==
    IF a.ok /\ a.next = Len(t) + 1 THEN Parsed("array", TRUE, a.val) ELSE SyntaxError

JSONparse(t) ==
    IF t = << >> THEN SyntaxError
    ELSE IF t = << "null" >> THEN Parsed("null", FALSE, << >>)
    ELSE IF t = << "false" >> THEN Parsed("boolean", FALSE, << >>)
    ELSE IF t = << "true" >> THEN Parsed("boolean", TRUE, << >>)
    ELSE IF t = << "0" >> THEN Parsed("number", FALSE, << >>)
    ELSE IF t = << "5" >> THEN Parsed("number", TRUE, << >>)
    ELSE IF t = << "{", "}" >> THEN Parsed("object", TRUE, << >>)
    ELSE IF t[1] = "\"" THEN WholeString(t, ParseString(t, 1))
    ELSE IF t = << "[", "]" >> THEN Parsed("array", TRUE, << >>)
    ELSE IF t[1] = "[" THEN WholeArray(t, ParseItems(t, ParseItem(t, 2), << >>))
    ELSE SyntaxError

----------------------------------------------------------------------------
(* Persistence *)

Absent == [present |-> FALSE, text |-> << >>]

Stored(t) == [present |-> TRUE, text |-> t]

\* the value of `todos` after loadTodos(): the array, or the text of a
\* truthy value that is not an array
\* p is JSON.parse(raw): a SyntaxError is caught, a falsy value replaced by []
Loaded(raw, p) ==
    IF ~p.ok \/ ~p.truthy THEN [todos |-> << >>, junk |-> << >>]
    ELSE IF p.kind = "array" THEN [todos |-> p.items, junk |-> << >>]
    ELSE [todos |-> << >>, junk |-> raw]

loadTodos(st) ==
    IF ~st.present \/ st.text = << >> THEN [todos |-> << >>, junk |-> << >>]
    ELSE Loaded(st.text, JSONparse(st.text))

saveTodos(td, jk) == Stored(IF jk # << >> THEN jk ELSE JSONstringify(td))

----------------------------------------------------------------------------
(* Rendering *)

passes(t, f) ==
    /\ (f = "active" => ~t.completed)
    /\ (f = "completed" => t.completed)

\* a search that compares the title as written
matchesAsTyped(t, q) ==
    trim(q) # << >> => includes(t.title, toLowerCase(trim(q)))

matches(t, q) ==
    trim(q) # << >> => includes(toLowerCase(t.title), toLowerCase(trim(q)))

shown(td, f, q) ==
    LET keep(t) == passes(t, f) /\ matches(t, q)
    IN  SelectSeq(td, keep)

\* a render that counts the rows it shows
renderTodosShownCount(td, jk, f, q, oldList, oldBadge) ==
    LET sh == shown(td, f, q)
    IN  [list |-> [i \in 1..Len(sh) |-> [id |-> sh[i].id, checked |-> sh[i].completed]],
         badge |-> << Cardinality({ i \in 1..Len(sh) : sh[i].completed }), Len(sh) >>,
         threw |-> FALSE]

\* what renderTodos() leaves behind: the list, the badge, and whether it threw
renderTodos(td, jk, f, q, oldList, oldBadge) ==
    IF jk # << >>
    THEN [list |-> IF jk[1] = "\"" /\ f = "all" /\ trim(q) = << >> THEN << >> ELSE oldList,
          badge |-> oldBadge, threw |-> TRUE]
    ELSE LET sh == shown(td, f, q)
         IN  [list |-> [i \in 1..Len(sh) |-> [id |-> sh[i].id, checked |-> sh[i].completed]],
              badge |-> << Cardinality({ i \in 1..Len(td) : td[i].completed }), Len(td) >>,
              threw |-> FALSE]

RenderedIds == Ids(rendered)

----------------------------------------------------------------------------
(* uid *)

uid == ToString(nextId)

----------------------------------------------------------------------------
(* Reorder *)

\* s without its i-th element
Without(s, i) == SubSeq(s, 1, i - 1) \o SubSeq(s, i + 1, Len(s))

\* every order the rows s can be dropped in
RECURSIVE Perms(_)
Perms(s) ==
    IF s = << >> THEN { << >> }
    ELSE UNION { { << s[i] >> \o p : p \in Perms(Without(s, i)) } : i \in 1..Len(s) }

IsPermOf(o, s) ==
    /\ Len(o) = Len(s)
    /\ { o[i] : i \in 1..Len(o) } = { s[i] : i \in 1..Len(s) }

\* a reorder that keeps the dropped rows in the order of the collection
newTodosAsBefore(td, order) ==
    LET named(t) == t.id \in { order[i] : i \in 1..Len(order) }
    IN  SelectSeq(td, named)

RECURSIVE newTodos(_, _)
newTodos(td, order) ==
    IF order = << >> THEN << >>
    ELSE LET idx == findIndex(td, Head(order))
         IN  (IF idx > 0 THEN << td[idx] >> ELSE << >>) \o newTodos(td, Tail(order))

\* a reorder that forgets the rows that were not shown
restDropped(td, order) == << >>

rest(td, order) ==
    LET shownSet == { order[i] : i \in 1..Len(order) }
        hidden(t) == t.id \notin shownSet
    IN  SelectSeq(td, hidden)

\* a reorder that puts the rows that were not shown first
reconcileHiddenFirst(td, order) == rest(td, order) \o newTodos(td, order)

reconcile(td, order) == newTodos(td, order) \o rest(td, order)

----------------------------------------------------------------------------
(* Initial state and the handlers *)

Fresh(st, n) ==
    /\ pc = "start"
    /\ todos = << >>
    /\ junk = << >>
    /\ filter = "all"
    /\ searchQuery = << >>
    /\ editingId = NoId
    /\ store = st
    /\ rendered = << >>
    /\ countBadge = << 0, 0 >>
    /\ nextId = n
    /\ alerted = "none"
    /\ threw = FALSE
    /\ lastOp = "none"
    /\ orderedIds = << >>

Init == Fresh(Absent, 1)

\* renderTodos(); at the end of a handler that left td, jk, f, q
OnlyRender(td, jk, f, q) ==
    LET r == renderTodos(td, jk, f, q, rendered, countBadge)
    IN  /\ rendered' = r.list
        /\ countBadge' = r.badge
        /\ threw' = r.threw

\* a handler that forgets saveTodos()
RenderWithoutSave(td, jk, f, q) == OnlyRender(td, jk, f, q) /\ UNCHANGED store

\* saveTodos(); renderTodos(); at the end of a handler that left td, jk, f, q
SaveAndRender(td, jk, f, q) ==
    /\ store' = saveTodos(td, jk)
    /\ OnlyRender(td, jk, f, q)

\* the script runs: the declarations, then loadTodos(); renderTodos();
Startup ==
    /\ pc = "start"
    /\ orderedIds' = << >>
    /\ LET l == loadTodos(store)
       IN  /\ todos' = l.todos
           /\ junk' = l.junk
           /\ OnlyRender(l.todos, l.junk, "all", << >>)
    /\ pc' = "running"
    /\ filter' = "all"
    /\ searchQuery' = << >>
    /\ editingId' = NoId
    /\ alerted' = "none"
    /\ lastOp' = "load"
    /\ UNCHANGED << store, nextId >>

\* a check that compares titles as written
duplicateExact(td, value, eid) ==
    \E i \in 1..Len(td) : td[i].title = value /\ td[i].id # eid

\* a check that does not leave out the item being edited
duplicateWithSelf(td, value, eid) ==
    \E i \in 1..Len(td) : toLowerCase(td[i].title) = toLowerCase(value)

duplicate(td, value, eid) ==
    \E i \in 1..Len(td) :
        toLowerCase(td[i].title) = toLowerCase(value) /\ td[i].id # eid

\* an edit that puts a new object in the place of the item
setTitleAsNew(td, idx, value) ==
    [td EXCEPT ![idx] = [id |-> td[idx].id, title |-> value, completed |-> FALSE]]

\* todos[idx].title = value
setTitle(td, idx, value) == [td EXCEPT ![idx].title = value]

\* todos.push(item)
push(td, item) == Append(td, item)

\* todos.unshift(item)
unshift(td, item) == << item >> \o td

\* form 'submit' with todoInput.value = v
Submit(v) ==
    /\ pc = "running"
    /\ orderedIds' = << >>
    /\ LET value == trim(v)
       IN  IF value = << >>
           THEN /\ alerted' = "EmptyTitle"
                /\ threw' = FALSE
                /\ lastOp' = "submit"
                /\ UNCHANGED << pc, todos, junk, filter, searchQuery, editingId, store,
                                rendered, countBadge, nextId >>
           ELSE IF junk # << >>
           THEN /\ alerted' = "none"
                /\ threw' = TRUE
                /\ lastOp' = "submit"
                /\ UNCHANGED << pc, todos, junk, filter, searchQuery, editingId, store,
                                rendered, countBadge, nextId >>
           ELSE IF duplicate(todos, value, editingId)
           THEN /\ alerted' = "DuplicateTitle"
                /\ threw' = FALSE
                /\ lastOp' = "submit"
                /\ UNCHANGED << pc, todos, junk, filter, searchQuery, editingId, store,
                                rendered, countBadge, nextId >>
           ELSE IF editingId # NoId
           THEN LET idx == findIndex(todos, editingId)
                    td == IF idx > 0 THEN setTitle(todos, idx, value) ELSE todos
                IN  /\ todos' = td
                    /\ editingId' = IF idx > 0 THEN NoId ELSE editingId
                    /\ alerted' = "none"
                    /\ lastOp' = IF idx > 0 THEN "edit" ELSE "editMissing"
                    /\ SaveAndRender(td, junk, filter, searchQuery)
                    /\ UNCHANGED << pc, junk, filter, searchQuery, nextId >>
           ELSE LET td == unshift(todos, [id |-> uid, title |-> value, completed |-> FALSE])
                IN  /\ nextId <= MaxIds
                    /\ todos' = td
                    /\ nextId' = nextId + 1
                    /\ alerted' = "none"
                    /\ lastOp' = "add"
                    /\ SaveAndRender(td, junk, filter, searchQuery)
                    /\ UNCHANGED << pc, junk, filter, searchQuery, editingId >>

\* a change handler that only ever ticks
setCompletedTrue(td, idx, checked) == [td EXCEPT ![idx].completed = TRUE]

\* todos[idx].completed = chk.checked
setCompleted(td, idx, checked) == [td EXCEPT ![idx].completed = checked]

\* checkbox 'change' on the rendered row k
Toggle(k) ==
    /\ pc = "running"
    /\ orderedIds' = << >>
    /\ k \in 1..Len(rendered)
    /\ lastOp' = "toggle"
    /\ alerted' = "none"
    /\ LET checked == ~rendered[k].checked
           idx == findIndex(todos, rendered[k].id)
       IN  IF idx > 0
           THEN LET td == setCompleted(todos, idx, checked)
                IN  /\ todos' = td
                    /\ SaveAndRender(td, junk, filter, searchQuery)
           ELSE /\ threw' = FALSE
                /\ UNCHANGED << todos, store, rendered, countBadge >>
    /\ UNCHANGED << pc, junk, filter, searchQuery, editingId, nextId >>

\* a delete that cuts the list at the item
removeFromId(td, id) == SubSeq(td, 1, findIndex(td, id) - 1)

\* todos.filter(t => t.id !== id)
removeId(td, id) ==
    LET others(t) == t.id # id
    IN  SelectSeq(td, others)

\* delete button 'click' on the rendered row k; ok is the answer to confirm()
Delete(k, ok) ==
    /\ pc = "running"
    /\ orderedIds' = << >>
    /\ k \in 1..Len(rendered)
    /\ lastOp' = "delete"
    /\ alerted' = "none"
    /\ IF ok
       THEN LET td == removeId(todos, rendered[k].id)
            IN  /\ todos' = td
                /\ SaveAndRender(td, junk, filter, searchQuery)
       ELSE /\ threw' = FALSE
            /\ UNCHANGED << todos, store, rendered, countBadge >>
    /\ UNCHANGED << pc, junk, filter, searchQuery, editingId, nextId >>

\* edit button 'click' on the rendered row k
startEdit(k) ==
    /\ pc = "running"
    /\ orderedIds' = << >>
    /\ k \in 1..Len(rendered)
    /\ lastOp' = "startEdit"
    /\ alerted' = "none"
    /\ threw' = FALSE
    /\ editingId' = IF findIndex(todos, rendered[k].id) > 0 THEN rendered[k].id ELSE editingId
    /\ UNCHANGED << pc, todos, junk, filter, searchQuery, store, rendered, countBadge, nextId >>

\* a filter button that filters the array itself
SetFilterInPlace(f) ==
    /\ pc = "running"
    /\ orderedIds' = << >>
    /\ lastOp' = "filter"
    /\ alerted' = "none"
    /\ filter' = f
    /\ todos' = shown(todos, f, searchQuery)
    /\ OnlyRender(todos', junk, f, searchQuery)
    /\ UNCHANGED << pc, junk, searchQuery, editingId, store, nextId >>

\* filter button 'click'
SetFilter(f) ==
    /\ pc = "running"
    /\ orderedIds' = << >>
    /\ lastOp' = "filter"
    /\ alerted' = "none"
    /\ filter' = f
    /\ OnlyRender(todos, junk, f, searchQuery)
    /\ UNCHANGED << pc, todos, junk, searchQuery, editingId, store, nextId >>

\* a search box that forgets renderTodos()
SearchWithoutRender(q) ==
    /\ pc = "running"
    /\ orderedIds' = << >>
    /\ lastOp' = "search"
    /\ alerted' = "none"
    /\ threw' = FALSE
    /\ searchQuery' = q
    /\ UNCHANGED << pc, todos, junk, filter, editingId, store, nextId, rendered, countBadge >>

\* search 'input'
Search(q) ==
    /\ pc = "running"
    /\ orderedIds' = << >>
    /\ lastOp' = "search"
    /\ alerted' = "none"
    /\ searchQuery' = q
    /\ OnlyRender(todos, junk, filter, q)
    /\ UNCHANGED << pc, todos, junk, filter, editingId, store, nextId >>

\* a clear button that does not wait for the answer
ClearUnasked(ok) ==
    /\ pc = "running"
    /\ orderedIds' = << >>
    /\ lastOp' = "clear"
    /\ alerted' = "none"
    /\ todos' = << >>
    /\ junk' = << >>
    /\ SaveAndRender(<< >>, << >>, filter, searchQuery)
    /\ UNCHANGED << pc, filter, searchQuery, editingId, nextId >>

\* clear button 'click'; ok is the answer to confirm()
Clear(ok) ==
    /\ pc = "running"
    /\ orderedIds' = << >>
    /\ lastOp' = "clear"
    /\ alerted' = "none"
    /\ IF ok
       THEN /\ todos' = << >>
            /\ junk' = << >>
            /\ SaveAndRender(<< >>, << >>, filter, searchQuery)
       ELSE /\ threw' = FALSE
            /\ UNCHANGED << todos, junk, store, rendered, countBadge >>
    /\ UNCHANGED << pc, filter, searchQuery, editingId, nextId >>

\* Sortable onEnd, the rows of the list having been dropped in the order `order`
DragEnd(order) ==
    /\ pc = "running"
    /\ rendered # << >>
    /\ IsPermOf(order, RenderedIds)
    /\ orderedIds' = order
    /\ lastOp' = "dragEnd"
    /\ alerted' = "none"
    /\ LET td == reconcile(todos, order)
       IN  /\ todos' = td
           /\ SaveAndRender(td, junk, filter, searchQuery)
    /\ UNCHANGED << pc, junk, filter, searchQuery, editingId, nextId >>

\* 'beforeunload': saveTodos, then the page and its variables are gone
Unload ==
    /\ pc = "running"
    /\ orderedIds' = << >>
    /\ store' = saveTodos(todos, junk)
    /\ pc' = "start"
    /\ todos' = << >>
    /\ junk' = << >>
    /\ filter' = "all"
    /\ searchQuery' = << >>
    /\ editingId' = NoId
    /\ rendered' = << >>
    /\ countBadge' = << 0, 0 >>
    /\ alerted' = "none"
    /\ threw' = FALSE
    /\ lastOp' = "unload"
    /\ UNCHANGED nextId

Next ==
    \/ Startup
    \/ \E v \in Inputs : Submit(v)
    \/ \E k \in 1..MaxIds : Toggle(k)
    \/ \E k \in 1..MaxIds, ok \in BOOLEAN : Delete(k, ok)
    \/ \E k \in 1..MaxIds : startEdit(k)
    \/ \E f \in Filters : SetFilter(f)
    \/ \E q \in Queries : Search(q)
    \/ \E ok \in BOOLEAN : Clear(ok)
    \/ \E o \in Perms(RenderedIds) : DragEnd(o)
    \/ Unload

Spec == Init /\ [][Next]_vars

----------------------------------------------------------------------------
(* The same program started over a store that something else wrote *)

RawSamples ==
    { << "x" >>, << "[" >>, << "[", "{", "}", "]" >>, << "\"", "a" >>,
      << "null" >>, << "false" >>, << "0" >>, << "\"", "\"" >>,
      << "5" >>, << "true" >>, << "{", "}" >>, << "\"", "a", "\"" >>,
      << "[", "]" >> }

InitCorrupt == \E st \in { Absent } \cup { Stored(r) : r \in RawSamples } : Fresh(st, 1)

SpecCorrupt == InitCorrupt /\ [][Next]_vars

----------------------------------------------------------------------------
(* The program opened over a list of four todos that earlier sessions saved, *)
(* the user browsing it: ticking, deleting, filtering, searching, dragging.  *)

SavedTodos ==
    << [id |-> "4", title |-> << "a" >>, completed |-> FALSE],
       [id |-> "3", title |-> << "A", "b" >>, completed |-> FALSE],
       [id |-> "2", title |-> << "b" >>, completed |-> FALSE],
       [id |-> "1", title |-> << "\"" >>, completed |-> FALSE] >>

InitList == Fresh(Stored(JSONstringify(SavedTodos)), Len(SavedTodos) + 1)

NextList ==
    \/ Startup
    \/ \E k \in 1..Len(SavedTodos) : Toggle(k)
    \/ \E k \in 1..Len(SavedTodos), ok \in BOOLEAN : Delete(k, ok)
    \/ \E f \in Filters : SetFilter(f)
    \/ \E q \in Queries : Search(q)
    \/ \E ok \in BOOLEAN : Clear(ok)
    \/ \E o \in Perms(RenderedIds) : DragEnd(o)
    \/ Unload

SpecList == InitList /\ [][NextList]_vars

----------------------------------------------------------------------------
(* The program from its first start, the user working with the form and the *)
(* rows of the list only, with a third title to give.                       *)

NextForm ==
    \/ Startup
    \/ \E v \in FormInputs : Submit(v)
    \/ \E k \in 1..MaxIds : Toggle(k)
    \/ \E k \in 1..MaxIds, ok \in BOOLEAN : Delete(k, ok)
    \/ \E k \in 1..MaxIds : startEdit(k)
    \/ Unload

SpecForm == Init /\ [][NextForm]_vars

----------------------------------------------------------------------------
(* Vocabulary of the properties, defined apart from the operators above *)

Blank(s) == \A i \in 1..Len(s) : s[i] = " "

\* s without its leading and trailing spaces
Core(s) ==
    IF Blank(s) THEN << >>
    ELSE LET ink == { i \in 1..Len(s) : s[i] # " " }
             lo == CHOOSE i \in ink : \A j \in ink : i <= j
             hi == CHOOSE i \in ink : \A j \in ink : j <= i
         IN  SubSeq(s, lo, hi)

Fold(s) == [i \in 1..Len(s) |-> IF s[i] = "A" THEN "a" ELSE IF s[i] = "B" THEN "b" ELSE s[i]]

SameTitle(s, t) == Fold(Core(s)) = Fold(Core(t))

EditTargetPresent == \E i \in 1..Len(todos) : todos[i].id = editingId

\* submitting v would put a second item with the title of another item into the list
Collides(v) ==
    \E i \in 1..Len(todos) : SameTitle(todos[i].title, v) /\ todos[i].id # editingId

UniqueTitles ==
    \A i, j \in 1..Len(todos) : i # j => ~SameTitle(todos[i].title, todos[j].title)

NonEmptyTitles == \A i \in 1..Len(todos) : ~Blank(todos[i].title)

\* C1: from the empty collection, no two items ever have titles equal after
\* trimming and lower-casing, and a submission (add, or edit of a present item)
\* that would collide alerts DuplicateTitle and leaves the collection unchanged.
C1_UniqueTitles ==
    /\ []UniqueTitles
    /\ [][\A v \in Inputs :
            (Submit(v) /\ ~Blank(v) /\ Collides(v) /\ (editingId = NoId \/ EditTargetPresent))
                => (alerted' = "DuplicateTitle" /\ todos' = todos /\ store' = store)]_vars

C1_Witness ==
    /\ lastOp = "submit"
    /\ alerted = "DuplicateTitle"
    /\ editingId = NoId
    /\ Len(todos) = 2

\* C2: a submission whose title is blank alerts EmptyTitle and changes neither
\* the collection, the stored snapshot nor the edit target; every item of every
\* reachable state has a title that is not blank.
C2_EmptyTitle ==
    /\ []NonEmptyTitles
    /\ [][\A v \in Inputs :
            (Submit(v) /\ Blank(v))
                => (alerted' = "EmptyTitle" /\ UNCHANGED << todos, store, editingId >>)]_vars

C2_Witness ==
    /\ lastOp = "submit"
    /\ alerted = "EmptyTitle"
    /\ editingId # NoId
    /\ EditTargetPresent
    /\ Len(todos) = 2

\* the items of b are the items of a, each once
Conserved(a, b) ==
    /\ Len(b) = Len(a)
    /\ { b[i] : i \in 1..Len(b) } = { a[i] : i \in 1..Len(a) }
    /\ Cardinality(IdSet(b)) = Len(b)

\* C3: a drag-end over any order of the rendered rows leaves the collection
\* with the same items: same length, same ids, none dropped or duplicated,
\* no title or completed flag changed.
C3_ReorderConserves ==
    [][(lastOp' = "dragEnd" /\ IsPermOf(orderedIds', RenderedIds))
          => Conserved(todos, todos')]_vars

C3_Witness ==
    /\ lastOp = "dragEnd"
    /\ searchQuery = << "A", " " >>
    /\ Len(rendered) = 2
    /\ Ids(todos) = << "3", "4", "2", "1" >>

\* the ids of td that o does not name, in the order of td
HiddenIds(td, o) ==
    LET named == { o[i] : i \in 1..Len(o) }
        Hidden(x) == x \notin named
    IN  SelectSeq(Ids(td), Hidden)

ItemOf(td, id) == td[CHOOSE i \in 1..Len(td) : td[i].id = id]

\* C4: the reordered collection is the items named by visibleOrder, in that
\* order, followed by the items it does not name in their order in the
\* collection.
C4_ReorderResult ==
    [][lastOp' = "dragEnd"
          => /\ Ids(todos') = orderedIds' \o HiddenIds(todos, orderedIds')
             /\ \A i \in 1..Len(todos') : todos'[i] = ItemOf(todos, todos'[i].id)]_vars

\* collection [A,B,C,D], B and D completed, filter active, [A,C] dropped as [C,A]
C4_Witness ==
    /\ lastOp = "dragEnd"
    /\ filter = "active"
    /\ searchQuery = << >>
    /\ Ids(todos) = << "2", "4", "3", "1" >>
    /\ ~todos[1].completed /\ ~todos[2].completed
    /\ todos[3].completed /\ todos[4].completed

\* C5: between events the stored snapshot is the whole in-memory collection:
\* every handler that changed the collection wrote it before it returned.
C5_SnapshotCurrent ==
    pc = "running" =>
        IF store.present THEN store.text = JSONstringify(todos) ELSE todos = << >>

C5_Witness ==
    /\ pc = "running"
    /\ lastOp = "toggle"
    /\ store.present
    /\ Len(todos) = 2
    /\ todos[2].completed

\* C6: what loadTodos reads from the snapshot written on unload is the
\* collection that was saved: same items, same order, same fields.
C6_RoundTrip ==
    [][Unload => loadTodos(store') = [todos |-> todos, junk |-> << >>]]_vars

C6_Witness ==
    /\ lastOp = "load"
    /\ Len(todos) = 2
    /\ todos[1].title = << "\"", "b" >>
    /\ todos[2].completed

\* C7: start-up over absent or malformed stored data leaves an empty
\* collection and raises nothing.
C7_CorruptLoadSafe ==
    lastOp = "load" =>
        /\ ~threw
        /\ junk = << >>
        /\ (todos # << >> => store = Stored(JSONstringify(todos)))

\* C8: saving an edit whose target is no longer in the collection alerts
\* NotFound and changes nothing.
C8_NotFoundSurfaced ==
    [][\A v \in Inputs :
          (Submit(v) /\ editingId # NoId /\ ~EditTargetPresent /\ ~Blank(v) /\ ~Collides(v))
              => (alerted' = "NotFound" /\ UNCHANGED << todos, store, editingId >>)]_vars

\* C9: a successful add puts one new item at the front, with the trimmed
\* title, not completed, under an id no item had; the items that were there
\* follow it unchanged.
C9_AddAtFront ==
    [][\A v \in FormInputs :
          (Submit(v) /\ editingId = NoId /\ alerted' = "none")
              => /\ Len(todos') = Len(todos) + 1
                 /\ todos'[1].title = Core(v)
                 /\ todos'[1].completed = FALSE
                 /\ todos'[1].id \notin IdSet(todos)
                 /\ Tail(todos') = todos]_vars

C9_Witness ==
    /\ lastOp = "add"
    /\ Len(todos) = 3
    /\ todos[1].title = << "\"", "b" >>
    /\ todos[2].completed
    /\ todos[3].title = << "A" >>

\* C10: editing a present item to its own title in any case and padding
\* succeeds; editing it to the title of another item alerts DuplicateTitle and
\* leaves the collection unchanged.
C10_EditExcludesSelf ==
    [][\A v \in FormInputs :
          (Submit(v) /\ ~Blank(v) /\ EditTargetPresent)
              => LET k == CHOOSE i \in 1..Len(todos) : todos[i].id = editingId
                 IN  /\ SameTitle(v, todos[k].title)
                          => /\ alerted' = "none"
                             /\ todos' = [todos EXCEPT ![k].title = Core(v)]
                             /\ editingId' = NoId
                     /\ (\E j \in 1..Len(todos) : j # k /\ SameTitle(v, todos[j].title))
                          => /\ alerted' = "DuplicateTitle"
                             /\ todos' = todos]_vars

\* every title taken: an edit that succeeded can only have kept the item's own title
C10_Witness ==
    /\ lastOp = "edit"
    /\ Len(todos) = 3
    /\ todos[2].title = << "A" >>

\* C11: a successful edit changes the title of the edited item and nothing
\* else: length and order, its id and completed flag, every other item.
C11_EditOnlyTitle ==
    [][\A v \in FormInputs :
          (Submit(v) /\ EditTargetPresent /\ alerted' = "none")
              => \E k \in 1..Len(todos) :
                    /\ todos[k].id = editingId
                    /\ Len(todos') = Len(todos)
                    /\ todos'[k].title = Core(v)
                    /\ todos'[k].id = todos[k].id
                    /\ todos'[k].completed = todos[k].completed
                    /\ \A i \in 1..Len(todos) : i # k => todos'[i] = todos[i]]_vars

C11_Witness ==
    /\ lastOp = "edit"
    /\ Len(todos) = 3
    /\ todos[3].title = << "A" >>
    /\ todos[3].completed
    /\ todos[1].completed

\* q occurs in s
Occurs(q, s) ==
    \E i \in 1..(Len(s) - Len(q) + 1) : \A j \in 1..Len(q) : s[i + j - 1] = q[j]

\* the item is to be shown under the status filter f and the search text q
ToShow(t, f, q) ==
    /\ CASE f = "active" -> t.completed = FALSE
         [] f = "completed" -> t.completed = TRUE
         [] OTHER -> TRUE
    /\ Blank(q) \/ Occurs(Fold(Core(q)), Fold(t.title))

PlaceOf(td, t) == CHOOSE i \in 1..Len(td) : td[i] = t

\* C12: the projection is exactly the items that pass the status filter and,
\* under a search text that is not blank, contain it case-insensitively; it
\* keeps the order of the collection.
C12_Projection ==
    (pc = "running" /\ junk = << >>) =>
        LET sh == shown(todos, filter, searchQuery)
        IN  /\ { sh[i] : i \in 1..Len(sh) }
                 = { todos[i] : i \in { j \in 1..Len(todos) : ToShow(todos[j], filter, searchQuery) } }
            /\ \A i, j \in 1..Len(sh) : i < j => PlaceOf(todos, sh[i]) < PlaceOf(todos, sh[j])

C12_Witness ==
    /\ pc = "running"
    /\ filter = "active"
    /\ searchQuery = << "A", " " >>
    /\ Len(todos) = 4
    /\ todos[1].completed
    /\ RenderedIds = << "3" >>

\* C13: choosing a filter or typing a search text changes neither the
\* collection, the stored snapshot nor the edit target.
C13_ProjectionPure ==
    [][(lastOp' = "filter" \/ lastOp' = "search")
          => UNCHANGED << todos, store, editingId >>]_vars

C13_Witness ==
    /\ lastOp = "filter"
    /\ filter = "completed"
    /\ Len(todos) = 2
    /\ rendered = << >>
    /\ EditTargetPresent

\* C14: the badge shows the number of completed items and the number of items
\* of the whole collection, whatever the filter and the search text.
C14_Summary ==
    pc = "running" =>
        LET done(t) == t.completed
        IN  countBadge = << Len(SelectSeq(todos, done)), Len(todos) >>

C14_Witness ==
    /\ pc = "running"
    /\ filter = "active"
    /\ searchQuery = << "A", " " >>
    /\ countBadge = << 2, 4 >>
    /\ Len(rendered) = 1

\* C15: a confirmed delete takes exactly the item of the row out of the
\* collection; the others keep their fields and their order.
C15_RemoveExactly ==
    [][\A k \in 1..Len(rendered) :
          Delete(k, TRUE)
              => \E p \in 1..Len(todos) :
                    /\ todos[p].id = rendered[k].id
                    /\ todos' = SubSeq(todos, 1, p - 1) \o SubSeq(todos, p + 1, Len(todos))]_vars

C15_Witness ==
    /\ lastOp = "delete"
    /\ Ids(todos) = << "4", "2", "1" >>
    /\ todos[2].completed

\* C16: ticking a row flips the completed flag of its item and changes
\* nothing else in the collection.
C16_ToggleFlips ==
    [][\A k \in 1..Len(rendered) :
          Toggle(k)
              => \E p \in 1..Len(todos) :
                    /\ todos[p].id = rendered[k].id
                    /\ todos' = [todos EXCEPT ![p].completed = ~todos[p].completed]]_vars

\* ticked and unticked again: the saved list as it was
C16_Witness ==
    /\ lastOp = "toggle"
    /\ todos = SavedTodos

\* C17: a confirmed clear leaves the collection and the stored snapshot
\* empty, whatever the filter, search text and edit target; a clear that is
\* not confirmed changes nothing.
C17_Clear ==
    [][/\ Clear(TRUE) => (todos' = << >> /\ store' = Stored(<< "[", "]" >>))
       /\ Clear(FALSE) => UNCHANGED << todos, store, filter, searchQuery, editingId, rendered >>]_vars

C17_Witness ==
    /\ lastOp = "clear"
    /\ todos = << >>
    /\ store = Stored(<< "[", "]" >>)
    /\ filter = "completed"
    /\ searchQuery = << "A", " " >>
    /\ editingId # NoId

\* C18: the edit target is none or the id of an item of the collection.
C18_EditTargetValid == editingId = NoId \/ EditTargetPresent

\* C19: after a drag-end the rows shown are the dropped rows in the order
\* they were dropped in, and the same drop again changes nothing.
C19_ReorderShown ==
    [][lastOp' = "dragEnd"
          => /\ Ids(shown(todos', filter', searchQuery')) = orderedIds'
             /\ UNCHANGED << filter, searchQuery >>
             /\ reconcile(todos', orderedIds') = todos']_vars

C19_Witness ==
    /\ lastOp = "dragEnd"
    /\ filter = "active"
    /\ Len(todos) = 4
    /\ RenderedIds = << "1", "4", "2" >>

\* C20: between events the rows of the list are the projection of the
\* collection under the current filter and search text, each id once and
\* each the id of an item, so a drag-end reads an order of the projection.
C20_RenderedCurrent ==
    pc = "running" =>
        LET sh == shown(todos, filter, searchQuery)
        IN  /\ rendered = [i \in 1..Len(sh) |-> [id |-> sh[i].id, checked |-> sh[i].completed]]
            /\ Cardinality({ rendered[i].id : i \in 1..Len(rendered) }) = Len(rendered)
            /\ \A i \in 1..Len(rendered) : rendered[i].id \in IdSet(todos)

C20_Witness ==
    /\ lastOp = "search"
    /\ searchQuery = << "A", " " >>
    /\ Len(todos) = 2
    /\ Len(rendered) = 1

====
